---- MODULE Spec2Model ----
(***************************************************************************)
(* Task_Tracker: the in-memory task list (Task, TaskManager) and its      *)
(* extensions, each with a specification of its own:                      *)
(*   Spec          TaskManagerWithHistory   src/History_Undo.py           *)
(*   SpecBase      TaskManager              src/History_Undo.py           *)
(*   SpecValidated TaskManagerWithValidation                              *)
(*                                 src/error_handling_and_validation.py   *)
(*   SpecSorting   TaskManagerWithDueDatesAndSorting                      *)
(*                                 src/DueDatesAndSorting.py              *)
(*   SpecQuery     AdvancedTaskManager and a caller that changes the list *)
(*                 a query returned     src/advance-querying.py           *)
(*   SpecQueries   AdvancedTaskManager or TaskManagerWithCategoriesAndTags *)
(*                                 src/CatandTagging.py                   *)
(*   SpecCollab    CollaborationManager     src/CollabFeature.py          *)
(*   SpecConsole   ConsoleInterface         src/UI_Enhancement.py         *)
(*                                                                         *)
(* A Task object is a record of its attributes; the task list is a        *)
(* sequence of such records.  Where two lists can refer to one object     *)
(* (the list a query returns, the lists of two users) the model says so:  *)
(* "aliased" for a query result, numbered objects for the users' lists.   *)
(***************************************************************************)
EXTENDS Integers, Sequences, FiniteSets, TLC

\* ---------------------------------------------------------------- bounds
\* longest task list the model builds
MaxTasks == 3
\* deepest undo stack the model builds
MaxDepth == 3
\* most add_task calls the model makes on a plain TaskManager
MaxAdded == 3

\* titles and descriptions the callers pass in; the plain TaskManager is also
\* given a title that differs from another in case only
Titles == {"A", "B"}
CasedTitles == {"A", "a", "B"}
Descriptions == {"d1", "d2"}

VARIABLES
    tasks,          \* TaskManager.tasks
    history,        \* TaskManagerWithHistory.history (top is the last element)
    redo_stack,     \* TaskManagerWithHistory.redo_stack (top is the last element)
    out,            \* the message the last call printed ("" when it printed nothing)
    raised,         \* the exception the last call raised ("none" when it returned)
    last,           \* observer: the last call and the state it was made in
    prev,           \* observer: the call before the last one
    undone,         \* observer: a successful undo has happened since the last mutation
    run,            \* observer: progress of a "n mutations, k undos, k redos" run
    added,          \* observer: every task ever added, with a mark once its title was removed
    result,         \* the list the last query returned (<<>> when the call was no query)
    args,           \* observer: the arguments of the last query
    aliased,        \* the list the last query returned is the manager's own list object
    manager,        \* the class of the manager a querying session built ("" elsewhere)
    users,          \* CollaborationManager.users: username -> the user's list of Task objects
    heap,           \* the Task objects the users' lists refer to, by object number
    command_history, \* ConsoleInterface.command_history
    theme,          \* ConsoleInterface.theme
    log             \* observer: every command given to execute_command, in order

\* the variables of the collaboration manager and of the console
collabVars == <<users, heap>>
consoleVars == <<command_history, theme, log>>

vars == <<tasks, history, redo_stack, out, raised, last, prev, undone, run, added,
          result, args, aliased, manager, collabVars, consoleVars>>

\* ------------------------------------------------------------------ Task
\* Task.__init__
Task(title, description, status) ==
    [title |-> title, description |-> description, status |-> status]

\* Task.__init__ with the default status
NewTask(title, description) == Task(title, description, "incomplete")

\* mark_complete as it would be if it wrote another word
mark_complete_completed(task) == [task EXCEPT !.status = "completed"]

\* Task.mark_complete
mark_complete(task) == [task EXCEPT !.status = "complete"]

\* Task.mark_incomplete
mark_incomplete(task) == [task EXCEPT !.status = "incomplete"]

\* ----------------------------------------------------------- TaskManager
\* add_task as it would be if it put the new task first
add_task_front(ts, title, description) == <<NewTask(title, description)>> \o ts

\* add_task as it would be if it refused a title that is already in the list
add_task_unique(ts, title, description) ==
    IF \E i \in 1..Len(ts) : ts[i].title = title
    THEN ts
    ELSE Append(ts, NewTask(title, description))

\* TaskManager.add_task: the list after the call
add_task(ts, title, description) == Append(ts, NewTask(title, description))

\* remove_task as it would be if it compared titles without regard to case
remove_task_nocase(ts, title) ==
    LET lower(t) == IF t = "A" THEN "a" ELSE IF t = "B" THEN "b" ELSE t
    IN  SelectSeq(ts, LAMBDA task : lower(task.title) # lower(title))

\* TaskManager.remove_task: the list after the call
remove_task(ts, title) == SelectSeq(ts, LAMBDA task : task.title # title)

\* mark_task_complete as it would be if it stopped at the first match (break)
mark_task_complete_first(ts, title) ==
    [i \in 1..Len(ts) |->
        IF ts[i].title = title /\ \A j \in 1..(i - 1) : ts[j].title # title
        THEN mark_complete(ts[i])
        ELSE ts[i]]

\* TaskManager.mark_task_complete: the list after the call
mark_task_complete(ts, title) ==
    [i \in 1..Len(ts) |-> IF ts[i].title = title THEN mark_complete(ts[i]) ELSE ts[i]]

\* mark_task_incomplete as it would be if it forgot to compare the title
mark_task_incomplete_all(ts, title) ==
    [i \in 1..Len(ts) |-> mark_incomplete(ts[i])]

\* TaskManager.mark_task_incomplete: the list after the call
mark_task_incomplete(ts, title) ==
    [i \in 1..Len(ts) |-> IF ts[i].title = title THEN mark_incomplete(ts[i]) ELSE ts[i]]

\* ------------------------------------------------ TaskManagerWithHistory
\* task.__dict__.copy(): the attribute dictionary of a task
TaskDict(task) ==
    [title |-> task.title, description |-> task.description, status |-> task.status]

\* Task(**d): a task rebuilt from an attribute dictionary
TaskFromDict(d) == Task(d.title, d.description, d.status)

\* [task.__dict__.copy() for task in self.tasks]
Snapshot(ts) == [i \in 1..Len(ts) |-> TaskDict(ts[i])]

\* [Task(**task) for task in state]
Restore(state) == [i \in 1..Len(state) |-> TaskFromDict(state[i])]

\* list.pop(): the list without its last element
Pop(stack) == SubSeq(stack, 1, Len(stack) - 1)

\* the element list.pop() returns
Top(stack) == stack[Len(stack)]

\* save_state as it would be if it kept one snapshot only
save_state_history_single(h, ts) == <<Snapshot(ts)>>

\* save_state: the undo stack after the call
save_state_history(h, ts) == Append(h, Snapshot(ts))

\* the snapshots of a stack as they would be after a change of the list from
\* ts to after if a snapshot held the list's own tasks
Stacked_shared(stack, ts, after) ==
    [i \in 1..Len(stack) |-> IF stack[i] = Snapshot(ts) THEN Snapshot(after) ELSE stack[i]]

\* the snapshots of a stack after a change of the list from ts to after: a
\* snapshot holds dictionaries made by task.__dict__.copy() and none of the
\* list's Task objects, so a change of the list leaves it as it is
Stacked(stack, ts, after) == stack

\* save_state as it would be without redo_stack.clear()
save_state_redo_kept(r) == r

\* save_state: the redo stack after the call (redo_stack.clear())
save_state_redo(r) == <<>>

\* ---------------------------------------------------------------- strings
\* the characters of the strings the model passes around
Chars(s) ==
    CASE s = ""     -> <<>>
      [] s = " "    -> <<" ">>
      [] s = "  "   -> <<" ", " ">>
      [] s = "A"    -> <<"A">>
      [] s = " A"   -> <<" ", "A">>
      [] s = "a"    -> <<"a">>
      [] s = "B"    -> <<"B">>
      [] s = "d1"   -> <<"d", "1">>
      [] s = "d2"   -> <<"d", "2">>
      [] s = "D2"   -> <<"D", "2">>
      [] s = "W"    -> <<"W">>
      [] s = "X"    -> <<"X">>
      [] s = "W/X"  -> <<"W", "/", "X">>
      [] s = "complete"   -> <<"c", "o", "m", "p", "l", "e", "t", "e">>
      [] s = "incomplete" -> <<"i", "n", "c", "o", "m", "p", "l", "e", "t", "e">>

\* the characters str.strip() takes away
Whitespace == {" "}

\* str.lstrip() on the characters of a string
RECURSIVE lstrip(_)
lstrip(cs) ==
    IF cs # <<>> /\ cs[1] \in Whitespace THEN lstrip(Tail(cs)) ELSE cs

\* str.rstrip() on the characters of a string
RECURSIVE rstrip(_)
rstrip(cs) ==
    IF cs # <<>> /\ cs[Len(cs)] \in Whitespace
    THEN rstrip(SubSeq(cs, 1, Len(cs) - 1))
    ELSE cs

\* str.strip() on the characters of a string
strip(cs) == rstrip(lstrip(cs))

\* ord(): the code point of a character
Ord(c) ==
    CASE c = "c" -> 99
      [] c = "e" -> 101
      [] c = "i" -> 105
      [] c = "l" -> 108
      [] c = "m" -> 109
      [] c = "n" -> 110
      [] c = "o" -> 111
      [] c = "p" -> 112
      [] c = "t" -> 116

\* a string as the sequence of code points str comparison goes by
CodePoints(s) == [i \in 1..Len(Chars(s)) |-> Ord(Chars(s)[i])]

\* a < b for two sequences of integers compared item by item, as Python
\* compares str with str and datetime with datetime
RECURSIVE LexLess(_, _)
LexLess(a, b) ==
    IF b = <<>> THEN FALSE
    ELSE IF a = <<>> THEN TRUE
    ELSE IF a[1] # b[1] THEN a[1] < b[1]
    ELSE LexLess(Tail(a), Tail(b))

\* ------------------------------------------------------------- list.sort
\* one step of the stable sort: e goes in front of the first pair whose key
\* is greater than its own
RECURSIVE Insert(_, _)
Insert(sorted, e) ==
    IF sorted = <<>> THEN <<e>>
    ELSE IF LexLess(e[1], Head(sorted)[1]) THEN <<e>> \o sorted
    ELSE <<Head(sorted)>> \o Insert(Tail(sorted), e)

\* <<key, item>> pairs in ascending order of key, equal keys in input order
RECURSIVE SortPairs(_)
SortPairs(ps) ==
    IF ps = <<>> THEN <<>>
    ELSE Insert(SortPairs(SubSeq(ps, 1, Len(ps) - 1)), ps[Len(ps)])

\* list.sort as it would be if it looked the tasks up by their keys: each
\* place gets the first task that has the key of that place
list_sort_by_key_only(ts, keys) ==
    LET sorted == SortPairs([i \in 1..Len(ts) |-> <<keys[i], ts[i]>>])
    IN  [i \in 1..Len(ts) |->
            ts[CHOOSE k \in 1..Len(ts) :
                   keys[k] = sorted[i][1] /\ \A j \in 1..(k - 1) : keys[j] # sorted[i][1]]]

\* list.sort(key=...): keys[i] is the key of ts[i]
list_sort(ts, keys) ==
    LET sorted == SortPairs([i \in 1..Len(ts) |-> <<keys[i], ts[i]>>])
    IN  [i \in 1..Len(ts) |-> sorted[i][2]]

\* ------------------------------------- TaskManagerWithDueDatesAndSorting
\* due_date=None
NoDate == <<>>

\* a datetime: <<year, month, day, hour, minute, second, microsecond>>
datetime_max == <<9999, 12, 31, 23, 59, 59, 999999>>

\* the days of a month of the proleptic Gregorian calendar
DaysInMonth(year, month) ==
    IF month \in {4, 6, 9, 11} THEN 30
    ELSE IF month # 2 THEN 31
    ELSE IF year % 4 = 0 /\ (year % 100 # 0 \/ year % 400 = 0) THEN 29
    ELSE 28

\* datetime.strptime(s, "%Y-%m-%d") raises ValueError; s is given by its
\* three numbers <<YYYY, MM, DD>>
strptime_fails(s) ==
    ~ (/\ s[1] \in 1..9999
       /\ s[2] \in 1..12
       /\ s[3] \in 1..DaysInMonth(s[1], s[2]))

\* datetime.strptime(s, "%Y-%m-%d"): midnight of that day
strptime(s) == <<s[1], s[2], s[3], 0, 0, 0, 0>>

\* TaskWithDueDateAndPriority.__init__
TaskWithDueDateAndPriority(title, description, status, due_date, priority) ==
    [title |-> title, description |-> description, status |-> status,
     due_date |-> IF due_date # NoDate THEN strptime(due_date) ELSE NoDate,
     priority |-> priority]

\* the key of sort_tasks_by_due_date as it would be with datetime.min
due_date_key_min(task) ==
    IF task.due_date # NoDate THEN task.due_date ELSE <<1, 1, 1, 0, 0, 0, 0>>

\* lambda task: task.due_date or datetime.max
due_date_key(task) ==
    IF task.due_date # NoDate THEN task.due_date ELSE datetime_max

\* the key of sort_tasks_by_priority as it would be with the default 0
priority_key_zero(task) ==
    CASE task.priority = "high"   -> <<1>>
      [] task.priority = "medium" -> <<2>>
      [] task.priority = "low"    -> <<3>>
      [] OTHER                    -> <<0>>

\* lambda task: priority_order.get(task.priority, 4)
priority_key(task) ==
    CASE task.priority = "high"   -> <<1>>
      [] task.priority = "medium" -> <<2>>
      [] task.priority = "low"    -> <<3>>
      [] OTHER                    -> <<4>>

\* the key of sort_tasks_by_status as it would be under reverse=True
status_key_reverse(task) ==
    [i \in 1..Len(CodePoints(task.status)) |-> 0 - CodePoints(task.status)[i]]

\* lambda task: task.status
status_key(task) == CodePoints(task.status)

\* sort_tasks_by_due_date: the list after the call
sort_tasks_by_due_date(ts) ==
    list_sort(ts, [i \in 1..Len(ts) |-> due_date_key(ts[i])])

\* sort_tasks_by_priority: the list after the call
sort_tasks_by_priority(ts) ==
    list_sort(ts, [i \in 1..Len(ts) |-> priority_key(ts[i])])

\* sort_tasks_by_status: the list after the call
sort_tasks_by_status(ts) ==
    list_sort(ts, [i \in 1..Len(ts) |-> status_key(ts[i])])

\* TaskManagerWithDueDatesAndSorting.add_task: the list after the call
add_dated_task(ts, title, description, due_date, priority) ==
    Append(ts, TaskWithDueDateAndPriority(title, description, "incomplete",
                                          due_date, priority))

\* --------------------------------------------------- AdvancedTaskManager
\* an optional argument: left out (None) or given
None == <<>>

Some(value) == <<value>>

\* str.lower() on one character
LowerChar(c) ==
    CASE c = "A" -> "a"
      [] c = "B" -> "b"
      [] c = "D" -> "d"
      [] OTHER   -> c

\* str.lower() on the characters of a string
lower(cs) == [i \in 1..Len(cs) |-> LowerChar(cs[i])]

\* needle in hay, for the characters of two strings
Contains(needle, hay) ==
    \E k \in 0..(Len(hay) - Len(needle)) :
        SubSeq(hay, k + 1, k + Len(needle)) = needle

\* keyword.lower() in task.title.lower() or keyword.lower() in task.description.lower()
keyword_matches(keyword, task) ==
    \/ Contains(lower(Chars(keyword)), lower(Chars(task.title)))
    \/ Contains(lower(Chars(keyword)), lower(Chars(task.description)))

\* any(... for keyword in keywords)
any_keyword_matches(keywords, task) ==
    \E k \in 1..Len(keywords) : keyword_matches(keywords[k], task)

\* filter_tasks_by_status: the list returned
filter_tasks_by_status(ts, status) ==
    SelectSeq(ts, LAMBDA task : task.status = status)

\* search_tasks_by_keyword: the list returned
search_tasks_by_keyword(ts, keyword) ==
    SelectSeq(ts, LAMBDA task : keyword_matches(keyword, task))

\* search_tasks_by_keywords: the list returned
search_tasks_by_keywords(ts, keywords) ==
    SelectSeq(ts, LAMBDA task : any_keyword_matches(keywords, task))

\* "if status:" is taken: status is neither None nor the empty string
status_truthy(status) == status # None /\ status[1] # ""

\* "if keywords:" is taken: keywords is neither None nor the empty list
keywords_truthy(keywords) == keywords # None /\ keywords[1] # <<>>

\* filter_tasks: the list returned
filter_tasks(ts, status, keywords) ==
    LET by_status ==
            IF status_truthy(status)
            THEN SelectSeq(ts, LAMBDA task : task.status = status[1])
            ELSE ts
    IN  IF keywords_truthy(keywords)
        THEN SelectSeq(by_status, LAMBDA task : any_keyword_matches(keywords[1], task))
        ELSE by_status

\* filter_tasks starts from "filtered_tasks = self.tasks" and rebinds the name
\* only inside the two "if" blocks: with neither taken the list returned is
\* self.tasks itself
filter_tasks_returns_own_list(status, keywords) ==
    ~status_truthy(status) /\ ~keywords_truthy(keywords)

\* ------------------------------------- TaskManagerWithCategoriesAndTags
\* TaskWithCategoriesAndTags.__init__: category is None or Some(string), tags
\* is None or Some(list of strings); "tags or []" makes None the empty list
TaskWithCategoriesAndTags(title, description, status, category, tags) ==
    [title |-> title, description |-> description, status |-> status,
     category |-> category,
     tags |-> IF tags # None /\ tags[1] # <<>> THEN tags[1] ELSE <<>>]

\* TaskManagerWithCategoriesAndTags.add_task: the list afterwards
add_tagged_task(ts, title, description, category, tags) ==
    Append(ts, TaskWithCategoriesAndTags(title, description, "incomplete", category, tags))

\* isinstance(task, TaskWithCategoriesAndTags)
is_tagged(task) == "category" \in DOMAIN task

\* str.split("/") on the characters of a string: the pieces between slashes
RECURSIVE split(_)
split(cs) ==
    IF \A k \in 1..Len(cs) : cs[k] # "/" THEN <<cs>>
    ELSE LET k == CHOOSE k \in 1..Len(cs) :
                      cs[k] = "/" /\ \A j \in 1..(k - 1) : cs[j] # "/"
         IN  <<SubSeq(cs, 1, k - 1)>> \o split(SubSeq(cs, k + 1, Len(cs)))

\* filter_tasks_by_category: the list returned
filter_tasks_by_category(ts, category) ==
    SelectSeq(ts, LAMBDA task : is_tagged(task) /\ task.category = category)

\* any(tag in task.tags for tag in tags)
any_tag_matches(tags, task) ==
    \E k \in 1..Len(tags) : \E i \in 1..Len(task.tags) : task.tags[i] = tags[k]

\* search_tasks_by_tags: the list returned
search_tasks_by_tags(ts, tags) ==
    SelectSeq(ts, LAMBDA task : is_tagged(task) /\ any_tag_matches(tags, task))

\* task.category and task.category.split("/") == category_hierarchy
nested_category_matches(category_hierarchy, task) ==
    /\ task.category # None
    /\ task.category[1] # ""
    /\ split(Chars(task.category[1]))
           = [i \in 1..Len(category_hierarchy) |-> Chars(category_hierarchy[i])]

\* filter_tasks_by_nested_category: the list returned
filter_tasks_by_nested_category(ts, category_hierarchy) ==
    SelectSeq(ts, LAMBDA task :
                     is_tagged(task) /\ nested_category_matches(category_hierarchy, task))

\* --------------------------------------------------- CollaborationManager
\* A Task object of the collaboration manager: the task, whether share_task
\* replaced its mark_complete and mark_incomplete attributes, its comments
\* attribute (None while the object has none), and, as an observer, the
\* status it was shared with (None for a task that is no shared copy).
TaskObject(task, read_only, shared_status) ==
    [task |-> task, read_only |-> read_only, comments |-> None,
     shared_status |-> shared_status]

\* the tasks a user's list refers to, in list order
TasksOf(us, hp, username) == [i \in 1..Len(us[username]) |-> hp[us[username][i]].task]

\* the places of a user's list whose task has the title
Matching(us, hp, username, title) ==
    {i \in 1..Len(us[username]) : hp[us[username][i]].task.title = title}

\* add_user: the dictionary afterwards; a new user has an empty TaskManager
add_user(us, username) ==
    IF username \in DOMAIN us THEN us
    ELSE [n \in DOMAIN us \cup {username} |-> IF n \in DOMAIN us THEN us[n] ELSE <<>>]

add_user_out(us, username) ==
    IF username \in DOMAIN us
    THEN <<"User '", username, "' already exists.">>
    ELSE <<"User '", username, "' added successfully.">>

\* users[username].tasks.add_task: a new Task object at the end of the list
user_add_task_heap(hp, title, description) ==
    Append(hp, TaskObject(NewTask(title, description), FALSE, None))

user_add_task(us, hp, username) ==
    [us EXCEPT ![username] = Append(@, Len(hp) + 1)]

\* users[username].tasks.remove_task
user_remove_task(us, hp, username, title) ==
    [us EXCEPT ![username] = SelectSeq(@, LAMBDA id : hp[id].task.title # title)]

\* task.mark_complete() as it would be if the class method were always called
call_mark_complete_method(object) == [object EXCEPT !.task = mark_complete(@)]

\* task.mark_complete(): the attribute share_task set on a read-only copy
\* shadows the method of the class and only prints
call_mark_complete(object) ==
    IF object.read_only THEN object ELSE [object EXCEPT !.task = mark_complete(@)]

\* task.mark_incomplete()
call_mark_incomplete(object) ==
    IF object.read_only THEN object ELSE [object EXCEPT !.task = mark_incomplete(@)]

\* users[username].tasks.mark_task_complete: the objects afterwards
user_mark_task_complete(us, hp, username, title) ==
    [id \in DOMAIN hp |->
        IF \E i \in Matching(us, hp, username, title) : us[username][i] = id
        THEN call_mark_complete(hp[id]) ELSE hp[id]]

\* users[username].tasks.mark_task_incomplete: the objects afterwards
user_mark_task_incomplete(us, hp, username, title) ==
    [id \in DOMAIN hp |->
        IF \E i \in Matching(us, hp, username, title) : us[username][i] = id
        THEN call_mark_incomplete(hp[id]) ELSE hp[id]]

\* what the mark methods print last: the replaced attribute of a read-only
\* copy prints, the methods of the class print nothing
user_mark_out(us, hp, username, title) ==
    IF \E i \in Matching(us, hp, username, title) : hp[us[username][i]].read_only
    THEN <<"Permission denied: Read-only access.">>
    ELSE <<>>

\* share_task: "from_user not in self.users or to_user not in self.users"
users_missing(us, from_user, to_user) ==
    from_user \notin DOMAIN us \/ to_user \notin DOMAIN us

\* share_task: next((task for task in from_user_tasks.tasks if
\* task.title == task_title), None), as the number of the object; 0 for None
task_to_share(us, hp, from_user, task_title) ==
    IF Matching(us, hp, from_user, task_title) = {} THEN 0
    ELSE LET i == CHOOSE i \in Matching(us, hp, from_user, task_title) :
                      \A j \in Matching(us, hp, from_user, task_title) : i <= j
         IN  us[from_user][i]

\* share_task returns before it shares
share_task_fails(us, hp, from_user, to_user, task_title) ==
    IF users_missing(us, from_user, to_user) THEN TRUE
    ELSE task_to_share(us, hp, from_user, task_title) = 0

\* share_task: the new Task object built from the task to share
shared_task(object, permission) ==
    TaskObject(Task(object.task.title, object.task.description, object.task.status),
               permission = "read", Some(object.task.status))

\* share_task: the objects afterwards
share_task_heap(us, hp, from_user, to_user, task_title, permission) ==
    IF share_task_fails(us, hp, from_user, to_user, task_title) THEN hp
    ELSE Append(hp, shared_task(hp[task_to_share(us, hp, from_user, task_title)],
                                permission))

\* share_task as it would be if it appended the task to share itself
share_task_same_object(us, hp, from_user, to_user, task_title, permission) ==
    IF share_task_fails(us, hp, from_user, to_user, task_title) THEN us
    ELSE [us EXCEPT ![to_user] =
              Append(@, task_to_share(us, hp, from_user, task_title))]

\* share_task: the users' lists afterwards
share_task(us, hp, from_user, to_user, task_title, permission) ==
    IF share_task_fails(us, hp, from_user, to_user, task_title) THEN us
    ELSE [us EXCEPT ![to_user] = Append(@, Len(hp) + 1)]

share_task_out(us, hp, from_user, to_user, task_title, permission) ==
    IF users_missing(us, from_user, to_user)
    THEN <<"Both users must exist to share a task.">>
    ELSE IF task_to_share(us, hp, from_user, task_title) = 0
    THEN <<"Task '", task_title, "' not found for user '", from_user, "'.">>
    ELSE <<"Task '", task_title, "' shared from '", from_user, "' to '", to_user,
           "' with '", permission, "' permission.">>

\* add_comment_to_task returns before it adds the comment
add_comment_fails(us, hp, username, task_title) ==
    IF username \notin DOMAIN us THEN TRUE
    ELSE task_to_share(us, hp, username, task_title) = 0

\* add_comment_to_task: the objects afterwards
add_comment_to_task(us, hp, username, task_title, comment) ==
    IF add_comment_fails(us, hp, username, task_title) THEN hp
    ELSE [hp EXCEPT ![task_to_share(us, hp, username, task_title)].comments =
              IF @ = None THEN Some(<<comment>>) ELSE Some(Append(@[1], comment))]

add_comment_out(us, hp, username, task_title) ==
    IF username \notin DOMAIN us
    THEN <<"User '", username, "' does not exist.">>
    ELSE IF task_to_share(us, hp, username, task_title) = 0
    THEN <<"Task '", task_title, "' not found for user '", username, "'.">>
    ELSE <<"Comment added to task '", task_title, "' for user '", username, "'.">>

\* ------------------------------------------------------ ConsoleInterface
\* deque(maxlen=50)
maxlen == 50

\* deque.append as it would be if a full deque refused the new element
deque_append_refusing(d, x) ==
    IF Len(d) < maxlen THEN Append(d, x) ELSE d

\* deque.append on a deque with maxlen: a full deque drops its oldest element
deque_append(d, x) ==
    IF Len(d) < maxlen THEN Append(d, x) ELSE Append(Tail(d), x)

\* change_theme: the theme after the choice typed in
change_theme(current, choice) ==
    CASE choice = "1" -> "default"
      [] choice = "2" -> "dark"
      [] choice = "3" -> "light"
      [] OTHER        -> current

\* what change_theme prints last
change_theme_out(choice) ==
    CASE choice = "1" -> <<"Theme set to Default.">>
      [] choice = "2" -> <<"Theme set to Dark Mode.">>
      [] choice = "3" -> <<"Theme set to Light Mode.">>
      [] OTHER        -> <<"Invalid choice. Theme not changed.">>

\* execute_command: the manager's list afterwards; title and description are
\* what the user types in when asked
execute_command_tasks(ts, command, title, description) ==
    CASE command = "1" -> add_task(ts, title, description)
      [] command = "2" -> remove_task(ts, title)
      [] command = "4" -> mark_task_complete(ts, title)
      [] command = "5" -> mark_task_incomplete(ts, title)
      [] OTHER         -> ts

\* execute_command: the theme afterwards
execute_command_theme(current, command, choice) ==
    IF command = "7" THEN change_theme(current, choice) ELSE current

\* execute_command: the line printed last, as its pieces; ch is the command
\* history with the command in it already
execute_command_out(ts, ch, command, choice) ==
    CASE command = "1" -> <<"Task added successfully.">>
      [] command = "2" -> <<"Task removed successfully.">>
      [] command = "3" ->
            IF ts = <<>> THEN <<"Listing all tasks:">>
            ELSE <<"Title: ", ts[Len(ts)].title, ", Description: ",
                   ts[Len(ts)].description, ", Status: ", ts[Len(ts)].status>>
      [] command = "4" -> <<"Task marked as complete.">>
      [] command = "5" -> <<"Task marked as incomplete.">>
      [] command = "6" -> <<Len(ch), ". ", ch[Len(ch)]>>
      [] command = "7" -> change_theme_out(choice)
      [] command = "8" -> <<"Exiting Task Manager. Goodbye!">>
      [] OTHER         -> <<"Invalid command. Please try again.">>

\* --------------------------------------------- TaskManagerWithValidation
\* "import logging" and logging.basicConfig are commented out
LoggingDefined == FALSE

\* the classes TaskNotFoundError and InvalidInputError are commented out
ExceptionsDefined == FALSE

\* what a call of logging.error or logging.info raises
LogCall == IF LoggingDefined THEN "none" ELSE "NameError"

\* what "raise X(...)" raises for one of the two custom exceptions
Raise(exception) == IF ExceptionsDefined THEN exception ELSE "NameError"

\* not title.strip() or not description.strip()
add_task_invalid(title, description) ==
    strip(Chars(title)) = <<>> \/ strip(Chars(description)) = <<>>

\* title not in [task.title for task in self.tasks]
title_not_found(ts, title) ==
    title \notin {ts[i].title : i \in 1..Len(ts)}

\* the failing branch: logging.error(...), then raise
FailWith(exception) == IF LogCall # "none" THEN LogCall ELSE Raise(exception)

\* ------------------------------------------------------------- observers
\* a call as the observers remember it: what was called, and on which state
Call(op, title, description) ==
    [op |-> op, title |-> title, description |-> description,
     tasks |-> tasks, history |-> history, redo_stack |-> redo_stack]

NoCall ==
    [op |-> "none", title |-> "", description |-> "",
     tasks |-> <<>>, history |-> <<>>, redo_stack |-> <<>>]

Mutations == {"add_task", "remove_task", "mark_task_complete", "mark_task_incomplete"}

\* run.snaps[i+1] is the list after the first i mutations; run.undos and
\* run.redos count the undos and redos made since; the run is "off" once the
\* calls stop having the shape mutations, then undos, then redos
NewRun == [phase |-> "mutating", snaps |-> << <<>> >>, undos |-> 0, redos |-> 0]

OffRun == [phase |-> "off", snaps |-> <<>>, undos |-> 0, redos |-> 0]

RunAfterMutation(after) ==
    IF run.phase = "mutating"
    THEN [run EXCEPT !.snaps = Append(run.snaps, after)]
    ELSE OffRun

RunAfterUndo ==
    IF run.phase \in {"mutating", "undoing"} /\ run.undos < Len(run.snaps) - 1
    THEN [run EXCEPT !.phase = "undoing", !.undos = run.undos + 1]
    ELSE OffRun

RunAfterRedo ==
    IF run.phase \in {"undoing", "redoing"} /\ run.redos < run.undos
    THEN [run EXCEPT !.phase = "redoing", !.redos = run.redos + 1]
    ELSE OffRun

\* the log of added tasks after a further add_task
AddedAfterAdd(title, description) ==
    Append(added, [title |-> title, description |-> description, removed |-> FALSE])

\* the log of added tasks after a remove_task(title)
AddedAfterRemove(title) ==
    [i \in 1..Len(added) |->
        IF added[i].title = title THEN [added[i] EXCEPT !.removed = TRUE] ELSE added[i]]

\* ------------------------------------------------------------------ Init
Fresh ==
    /\ tasks = <<>>
    /\ history = <<>>
    /\ redo_stack = <<>>
    /\ out = ""
    /\ raised = "none"
    /\ last = NoCall
    /\ prev = NoCall
    /\ undone = FALSE
    /\ run = NewRun
    /\ added = <<>>
    /\ result = <<>>
    /\ args = <<>>
    /\ aliased = FALSE
    /\ users = [username \in {} |-> <<>>]
    /\ heap = <<>>
    /\ command_history = <<>>
    /\ theme = "default"
    /\ log = <<>>

Init == Fresh /\ manager = ""

\* --------------------------------------- actions: TaskManagerWithHistory
\* an overriding mutation as it would be if it saved the state only when
\* the call changes the list
Mutate_if_changed(op, title, description, after) ==
    /\ Len(history) < MaxDepth
    /\ history' = IF after = tasks THEN history ELSE save_state_history(history, tasks)
    /\ redo_stack' = IF after = tasks THEN redo_stack ELSE save_state_redo(redo_stack)
    /\ tasks' = after
    /\ out' = ""
    /\ raised' = "none"
    /\ prev' = last
    /\ last' = Call(op, title, description)
    /\ undone' = FALSE
    /\ run' = RunAfterMutation(after)
    /\ UNCHANGED <<added, result, args, aliased, manager, collabVars, consoleVars>>

\* what every overriding mutation does around the change it applies
Mutate(op, title, description, after) ==
    /\ Len(history) < MaxDepth
    /\ history' = Stacked(save_state_history(history, tasks), tasks, after)
    /\ redo_stack' = Stacked(save_state_redo(redo_stack), tasks, after)
    /\ tasks' = after
    /\ out' = ""
    /\ raised' = "none"
    /\ prev' = last
    /\ last' = Call(op, title, description)
    /\ undone' = FALSE
    /\ run' = RunAfterMutation(after)
    /\ UNCHANGED <<added, result, args, aliased, manager, collabVars, consoleVars>>

TaskManagerWithHistory_add_task ==
    \E title \in Titles, description \in Descriptions :
        /\ Len(tasks) < MaxTasks
        /\ Mutate("add_task", title, description, add_task(tasks, title, description))

TaskManagerWithHistory_remove_task ==
    \E title \in Titles :
        Mutate("remove_task", title, "", remove_task(tasks, title))

TaskManagerWithHistory_mark_task_complete ==
    \E title \in Titles :
        Mutate("mark_task_complete", title, "", mark_task_complete(tasks, title))

TaskManagerWithHistory_mark_task_incomplete ==
    \E title \in Titles :
        Mutate("mark_task_incomplete", title, "", mark_task_incomplete(tasks, title))

\* undo as it would be if it took the oldest snapshot (pop(0))
undo_tasks_oldest(ts, h, r) == IF h = <<>> THEN ts ELSE Restore(h[1])

\* undo as it would be if it saved the snapshot it restores, not the current list
undo_redo_stack_restored(ts, h, r) == IF h = <<>> THEN r ELSE Append(r, Top(h))

\* undo as it would be if it saved the current list before looking at the stack
undo_redo_stack_unguarded(ts, h, r) == Append(r, Snapshot(ts))

\* undo: the three attributes after the call
undo_tasks(ts, h, r) == IF h = <<>> THEN ts ELSE Restore(Top(h))

undo_history(ts, h, r) == IF h = <<>> THEN h ELSE Pop(h)

undo_redo_stack(ts, h, r) == IF h = <<>> THEN r ELSE Append(r, Snapshot(ts))

undo_out(h) == IF h = <<>> THEN "No actions to undo." ELSE "Undo successful."

\* redo as it would be if it took the oldest snapshot (pop(0))
redo_tasks_oldest(ts, h, r) == IF r = <<>> THEN ts ELSE Restore(r[1])

\* redo: the three attributes after the call
redo_tasks(ts, h, r) == IF r = <<>> THEN ts ELSE Restore(Top(r))

\* redo as it would be if it did not put the current list on the undo stack
redo_history_unsaved(ts, h, r) == h

redo_history(ts, h, r) == IF r = <<>> THEN h ELSE Append(h, Snapshot(ts))

redo_redo_stack(ts, h, r) == IF r = <<>> THEN r ELSE Pop(r)

redo_out(r) == IF r = <<>> THEN "No actions to redo." ELSE "Redo successful."

undo ==
    /\ tasks' = undo_tasks(tasks, history, redo_stack)
    /\ history' = undo_history(tasks, history, redo_stack)
    /\ redo_stack' = undo_redo_stack(tasks, history, redo_stack)
    /\ out' = undo_out(history)
    /\ raised' = "none"
    /\ prev' = last
    /\ last' = Call("undo", "", "")
    /\ undone' = (undone \/ history # <<>>)
    /\ run' = RunAfterUndo
    /\ UNCHANGED <<added, result, args, aliased, manager, collabVars, consoleVars>>

redo ==
    /\ tasks' = redo_tasks(tasks, history, redo_stack)
    /\ history' = redo_history(tasks, history, redo_stack)
    /\ redo_stack' = redo_redo_stack(tasks, history, redo_stack)
    /\ out' = redo_out(redo_stack)
    /\ raised' = "none"
    /\ prev' = last
    /\ last' = Call("redo", "", "")
    /\ run' = RunAfterRedo
    /\ UNCHANGED <<undone, added, result, args, aliased, manager, collabVars, consoleVars>>

Next ==
    \/ TaskManagerWithHistory_add_task
    \/ TaskManagerWithHistory_remove_task
    \/ TaskManagerWithHistory_mark_task_complete
    \/ TaskManagerWithHistory_mark_task_incomplete
    \/ undo
    \/ redo

Spec == Init /\ [][Next]_vars

\* -------------------------------------------------- actions: TaskManager
\* what every call on a plain TaskManager leaves behind
Plain(op, title, description, after) ==
    /\ tasks' = after
    /\ out' = ""
    /\ raised' = "none"
    /\ last' = Call(op, title, description)
    /\ UNCHANGED <<history, redo_stack, prev, undone, run, result, args, aliased, manager,
                   collabVars, consoleVars>>

TaskManager_add_task ==
    \E title \in CasedTitles, description \in Descriptions :
        /\ Len(tasks) < MaxTasks
        /\ Len(added) < MaxAdded
        /\ Plain("add_task", title, description, add_task(tasks, title, description))
        /\ added' = AddedAfterAdd(title, description)

TaskManager_remove_task ==
    \E title \in CasedTitles :
        /\ Plain("remove_task", title, "", remove_task(tasks, title))
        /\ added' = AddedAfterRemove(title)

TaskManager_mark_task_complete ==
    \E title \in CasedTitles :
        /\ Plain("mark_task_complete", title, "", mark_task_complete(tasks, title))
        /\ UNCHANGED added

TaskManager_mark_task_incomplete ==
    \E title \in CasedTitles :
        /\ Plain("mark_task_incomplete", title, "", mark_task_incomplete(tasks, title))
        /\ UNCHANGED added

NextBase ==
    \/ TaskManager_add_task
    \/ TaskManager_remove_task
    \/ TaskManager_mark_task_complete
    \/ TaskManager_mark_task_incomplete

SpecBase == Init /\ [][NextBase]_vars

\* ------------------------------------------------------------ properties
\* the list as (title, description) pairs
Entries(ts) == [i \in 1..Len(ts) |-> <<ts[i].title, ts[i].description>>]

\* title matches no task of the list
Absent(ts, title) == \A i \in 1..Len(ts) : ts[i].title # title

\* C1: undo() right after a mutation (add_task, remove_task,
\* mark_task_complete, mark_task_incomplete) makes the task list equal, task
\* by task in title, description and status, to the list just before that
\* mutation.
UndoRestoresPriorList ==
    (last.op = "undo" /\ prev.op \in Mutations) => tasks = prev.tasks

\* an undo right after a remove_task that removed a completed task
UndoAfterRemoveReached ==
    /\ last.op = "undo"
    /\ prev.op = "remove_task"
    /\ Len(prev.tasks) = 1
    /\ prev.tasks[1].status = "complete"
    /\ last.tasks # prev.tasks
    /\ Len(prev.history) = 2

\* C2: redo() right after a successful undo() makes the task list equal to
\* the list just before that undo.
RedoRestoresUndoneList ==
    (last.op = "redo" /\ prev.op = "undo" /\ prev.history # <<>>)
        => tasks = prev.tasks

\* a redo right after the second of two undos, each of which changed the list
RedoAfterUndoReached ==
    /\ last.op = "redo"
    /\ prev.op = "undo"
    /\ prev.history # <<>>
    /\ Len(last.redo_stack) = 2
    /\ last.redo_stack[1] # last.redo_stack[2]
    /\ prev.tasks # last.tasks

\* C3: every mutation pushes a snapshot equal to the list it found on top of
\* the undo stack, leaves the entries below unchanged, and clears the redo
\* stack.
MutationRecordsPriorList ==
    last.op \in Mutations =>
        /\ Len(history) = Len(last.history) + 1
        /\ Top(history) = last.tasks
        /\ Pop(history) = last.history
        /\ redo_stack = <<>>

\* a mutation that changed the list, made with both stacks non-empty
MutationWithBothStacksReached ==
    /\ last.op \in Mutations
    /\ last.history # <<>>
    /\ last.redo_stack # <<>>
    /\ tasks # last.tasks

\* C4: from an empty undo stack, n mutations and then k <= n undos give the
\* list as it was after the first n-k mutations, and k redos after that give
\* the list as it was after all n mutations.
RunReplaysMutations ==
    /\ run.phase = "undoing" =>
            tasks = run.snaps[Len(run.snaps) - run.undos]
    /\ (run.phase = "redoing" /\ run.redos = run.undos) =>
            tasks = run.snaps[Len(run.snaps)]

\* add A, add B, remove A, undo, undo, redo, redo
RunExampleReached ==
    /\ run.phase = "redoing"
    /\ run.undos = 2
    /\ run.redos = 2
    /\ run.snaps = << <<>>,
                      <<NewTask("A", "d1")>>,
                      <<NewTask("A", "d1"), NewTask("B", "d2")>>,
                      <<NewTask("B", "d2")>> >>
    /\ tasks = <<NewTask("B", "d2")>>

RedoOnlyAfterUndo ==
    /\ redo_stack # <<>> => undone
    /\ last.op \in Mutations => redo_stack = <<>>

\* a mutation made right after an undo that had filled the redo stack
MutationAfterUndoReached ==
    /\ last.op \in Mutations
    /\ prev.op = "undo"
    /\ last.redo_stack # <<>>
    /\ ~undone

\* C7: on a plain TaskManager the list holds, in the order they were added,
\* the tasks added so far whose title has not been removed since.
ListIsInsertionOrder ==
    Entries(tasks) = Entries(SelectSeq(added, LAMBDA a : ~a.removed))

\* a title was removed and added again, and two tasks remain
ReaddedAfterRemoveReached ==
    /\ Len(tasks) = 2
    /\ Len(added) = 3
    /\ added[1].removed
    /\ added[1].title = added[3].title
    /\ added[2].title # added[3].title

\* C8: add_task appends exactly one task with the given title and
\* description and status "incomplete" at the end of the list, also when the
\* title is already there; the tasks before it are unchanged.
AddAppendsOne ==
    last.op = "add_task" =>
        /\ Len(tasks) = Len(last.tasks) + 1
        /\ tasks[Len(tasks)] =
              [title |-> last.title, description |-> last.description,
               status |-> "incomplete"]
        /\ \A i \in 1..Len(last.tasks) : tasks[i] = last.tasks[i]

\* an add_task of a title that a completed task of the list already has
AddDuplicateReached ==
    /\ last.op = "add_task"
    /\ \E i \in 1..Len(last.tasks) :
          /\ last.tasks[i].title = last.title
          /\ last.tasks[i].status = "complete"

\* C9: remove_task removes every task whose title equals the given title
\* exactly, duplicates included, and no other; the rest keep their order.
RemoveRemovesExactMatches ==
    last.op = "remove_task" =>
        LET kept == {i \in 1..Len(last.tasks) : last.tasks[i].title # last.title}
        IN  /\ Len(tasks) = Cardinality(kept)
            /\ \A i \in kept :
                  tasks[Cardinality({j \in kept : j <= i})] = last.tasks[i]

\* a remove_task that removed two tasks of the same title and kept the one
\* between them, whose title differs in case only
RemoveDuplicatesReached ==
    /\ last.op = "remove_task"
    /\ last.title = "A"
    /\ Len(last.tasks) = 3
    /\ last.tasks[1].title = "A"
    /\ last.tasks[2].title = "a"
    /\ last.tasks[3].title = "A"
    /\ Len(tasks) = 1

\* C10: on a plain TaskManager remove_task, mark_task_complete and
\* mark_task_incomplete with a title no task has leave the list as it was
\* and raise nothing.
AbsentTitleChangesNothing ==
    (/\ last.op \in {"remove_task", "mark_task_complete", "mark_task_incomplete"}
     /\ Absent(last.tasks, last.title))
        => (tasks = last.tasks /\ raised = "none")

\* a mark_task_incomplete of a title no task has, on a list with a completed
\* task
AbsentMarkReached ==
    /\ last.op = "mark_task_incomplete"
    /\ Absent(last.tasks, last.title)
    /\ \E i \in 1..Len(last.tasks) : last.tasks[i].status = "complete"


\* the status a mark call asks for
Requested(op) == IF op = "mark_task_complete" THEN "complete" ELSE "incomplete"

\* C11 as claimed: mark_task_complete and mark_task_incomplete change the
\* status of the first task whose title matches and of no other task; tasks
\* of the same title further down keep their status.
MarkChangesFirstMatchOnly ==
    last.op \in {"mark_task_complete", "mark_task_incomplete"} =>
        /\ Len(tasks) = Len(last.tasks)
        /\ \A i \in 1..Len(last.tasks) :
              IF /\ last.tasks[i].title = last.title
                 /\ \A j \in 1..(i - 1) : last.tasks[j].title # last.title
              THEN tasks[i] = [last.tasks[i] EXCEPT !.status = Requested(last.op)]
              ELSE tasks[i] = last.tasks[i]

\* C11 as amended: mark_task_complete and mark_task_incomplete change the
\* status of every task whose title matches and of no other task; titles,
\* descriptions, order and length of the list are unchanged.
MarkChangesEveryMatch ==
    last.op \in {"mark_task_complete", "mark_task_incomplete"} =>
        /\ Len(tasks) = Len(last.tasks)
        /\ \A i \in 1..Len(last.tasks) :
              IF last.tasks[i].title = last.title
              THEN tasks[i] = [last.tasks[i] EXCEPT !.status = Requested(last.op)]
              ELSE tasks[i] = last.tasks[i]

\* a mark_task_complete of a title that two incomplete tasks have, with a
\* task of another title between them
MarkDuplicatesReached ==
    /\ last.op = "mark_task_complete"
    /\ last.title = "A"
    /\ Len(last.tasks) = 3
    /\ last.tasks[1] = NewTask("A", "d1")
    /\ last.tasks[2].title = "a"
    /\ last.tasks[3] = NewTask("A", "d2")

\* C12: in every state the manager's operations (the four mutations, undo,
\* redo) reach, the status of every task of the list is "incomplete" or
\* "complete".
StatusIsOneOfTwo ==
    \A i \in 1..Len(tasks) : tasks[i].status \in {"incomplete", "complete"}

\* a list rebuilt by redo that holds a complete and an incomplete task
RedoneMixedListReached ==
    /\ last.op = "redo"
    /\ last.redo_stack # <<>>
    /\ \E i, j \in 1..Len(tasks) :
          tasks[i].status = "complete" /\ tasks[j].status = "incomplete"


\* ------------------------------------ actions: TaskManagerWithValidation
\* titles and descriptions passed to the validating manager
ValidatedTitles == {"A", " A", "", " "}
ValidatedDescriptions == {"d1", "", "  "}

\* what a call on a TaskManagerWithValidation leaves behind
Validated(op, title, description, after, exception) ==
    /\ tasks' = after
    /\ out' = ""
    /\ raised' = exception
    /\ last' = Call(op, title, description)
    /\ UNCHANGED <<history, redo_stack, prev, undone, run, added, result, args, aliased,
                   manager, collabVars, consoleVars>>

TaskManagerWithValidation_add_task ==
    \E title \in ValidatedTitles, description \in ValidatedDescriptions :
        /\ Len(tasks) < MaxTasks
        /\ IF add_task_invalid(title, description)
           THEN Validated("add_task", title, description, tasks,
                          FailWith("InvalidInputError"))
           ELSE Validated("add_task", title, description,
                          add_task(tasks, title, description), LogCall)

TaskManagerWithValidation_remove_task ==
    \E title \in ValidatedTitles :
        IF title_not_found(tasks, title)
        THEN Validated("remove_task", title, "", tasks, FailWith("TaskNotFoundError"))
        ELSE Validated("remove_task", title, "", remove_task(tasks, title), LogCall)

TaskManagerWithValidation_mark_task_complete ==
    \E title \in ValidatedTitles :
        IF title_not_found(tasks, title)
        THEN Validated("mark_task_complete", title, "", tasks,
                       FailWith("TaskNotFoundError"))
        ELSE Validated("mark_task_complete", title, "",
                       mark_task_complete(tasks, title), LogCall)

TaskManagerWithValidation_mark_task_incomplete ==
    \E title \in ValidatedTitles :
        IF title_not_found(tasks, title)
        THEN Validated("mark_task_incomplete", title, "", tasks,
                       FailWith("TaskNotFoundError"))
        ELSE Validated("mark_task_incomplete", title, "",
                       mark_task_incomplete(tasks, title), LogCall)

NextValidated ==
    \/ TaskManagerWithValidation_add_task
    \/ TaskManagerWithValidation_remove_task
    \/ TaskManagerWithValidation_mark_task_complete
    \/ TaskManagerWithValidation_mark_task_incomplete

SpecValidated == Init /\ [][NextValidated]_vars

\* the string is empty or holds whitespace only
Blank(s) == \A i \in 1..Len(Chars(s)) : Chars(s)[i] = " "

\* C13: a validated mutation that ends in an error leaves the task list as
\* it was before the call.
FailedCallChangesNothing ==
    (last.op \in Mutations /\ raised # "none") => tasks = last.tasks

\* C14: the validated add_task with an empty or whitespace-only title or
\* description fails with InvalidInputError and leaves the task list
\* unchanged.
BlankAddIsInvalidInput ==
    (last.op = "add_task" /\ (Blank(last.title) \/ Blank(last.description))) =>
        (raised = "InvalidInputError" /\ tasks = last.tasks)

\* C15: the validated remove_task, mark_task_complete and
\* mark_task_incomplete fail with TaskNotFoundError exactly when no task has
\* the title, and then leave the task list unchanged.
NotFoundExactlyWhenAbsent ==
    last.op \in {"remove_task", "mark_task_complete", "mark_task_incomplete"} =>
        /\ (raised = "TaskNotFoundError") <=> Absent(last.tasks, last.title)
        /\ Absent(last.tasks, last.title) => tasks = last.tasks


\* ---------------------------- actions: TaskManagerWithDueDatesAndSorting
\* the due dates and priorities passed to add_task, as <<due_date, priority>>:
\* the defaults, two dates (one the last day datetime knows) with a known or
\* an unknown priority, and a date that does not exist
SortInputs ==
    { <<NoDate, "medium">>,
      <<<<2023, 10, 10>>, "high">>,
      <<<<2023, 10, 10>>, "urgent">>,
      <<<<9999, 12, 31>>, "low">>,
      <<<<2023, 2, 30>>, "medium">> }

\* what a call on a TaskManagerWithDueDatesAndSorting leaves behind
Sorting(op, title, description, after, exception) ==
    /\ tasks' = after
    /\ out' = ""
    /\ raised' = exception
    /\ last' = Call(op, title, description)
    /\ UNCHANGED <<history, redo_stack, prev, undone, run, added, result, args, aliased,
                   manager, collabVars, consoleVars>>

TaskManagerWithDueDatesAndSorting_add_task ==
    \E title \in Titles, input \in SortInputs :
        /\ Len(tasks) < MaxTasks
        /\ IF input[1] # NoDate /\ strptime_fails(input[1])
           THEN Sorting("add_task", title, "d1", tasks, "ValueError")
           ELSE Sorting("add_task", title, "d1",
                        add_dated_task(tasks, title, "d1", input[1], input[2]),
                        "none")

TaskManagerWithDueDatesAndSorting_remove_task ==
    \E title \in Titles :
        Sorting("remove_task", title, "", remove_task(tasks, title), "none")

TaskManagerWithDueDatesAndSorting_mark_task_complete ==
    \E title \in Titles :
        Sorting("mark_task_complete", title, "",
                mark_task_complete(tasks, title), "none")

TaskManagerWithDueDatesAndSorting_mark_task_incomplete ==
    \E title \in Titles :
        Sorting("mark_task_incomplete", title, "",
                mark_task_incomplete(tasks, title), "none")

TaskManagerWithDueDatesAndSorting_sort_tasks_by_due_date ==
    Sorting("sort_tasks_by_due_date", "", "", sort_tasks_by_due_date(tasks), "none")

TaskManagerWithDueDatesAndSorting_sort_tasks_by_priority ==
    Sorting("sort_tasks_by_priority", "", "", sort_tasks_by_priority(tasks), "none")

TaskManagerWithDueDatesAndSorting_sort_tasks_by_status ==
    Sorting("sort_tasks_by_status", "", "", sort_tasks_by_status(tasks), "none")

NextSorting ==
    \/ TaskManagerWithDueDatesAndSorting_add_task
    \/ TaskManagerWithDueDatesAndSorting_remove_task
    \/ TaskManagerWithDueDatesAndSorting_mark_task_complete
    \/ TaskManagerWithDueDatesAndSorting_mark_task_incomplete
    \/ TaskManagerWithDueDatesAndSorting_sort_tasks_by_due_date
    \/ TaskManagerWithDueDatesAndSorting_sort_tasks_by_priority
    \/ TaskManagerWithDueDatesAndSorting_sort_tasks_by_status

SpecSorting == Init /\ [][NextSorting]_vars


\* the tasks of the list that satisfy Test, in list order
Only(ts, Test(_)) == SelectSeq(ts, Test)

Dated(task) == task.due_date # NoDate

Undated(task) == task.due_date = NoDate

\* C16: after sort_tasks_by_due_date the tasks with a due date are in
\* non-decreasing order of date, every task without a due date comes after
\* every task with one, and the tasks without a due date keep their relative
\* order.
SortedByDueDate ==
    last.op = "sort_tasks_by_due_date" =>
        /\ \A i, j \in 1..Len(tasks) :
              (i < j /\ Dated(tasks[i]) /\ Dated(tasks[j])) =>
                  ~ LexLess(tasks[j].due_date, tasks[i].due_date)
        /\ \A i, j \in 1..Len(tasks) :
              (Undated(tasks[i]) /\ Dated(tasks[j])) => j < i
        /\ Only(tasks, Undated) = Only(last.tasks, Undated)

\* a sort_tasks_by_due_date of a list with an undated task first, then a task
\* due on the last day there is, then a task due earlier
SortByDueDateReached ==
    /\ last.op = "sort_tasks_by_due_date"
    /\ Len(last.tasks) = 3
    /\ Undated(last.tasks[1])
    /\ last.tasks[2].due_date = <<9999, 12, 31, 0, 0, 0, 0>>
    /\ last.tasks[3].due_date = <<2023, 10, 10, 0, 0, 0, 0>>
    /\ tasks[3] = last.tasks[1]

\* the group of a priority: high, medium, low, anything else
PriorityGroup(priority) ==
    IF priority = "high" THEN 1
    ELSE IF priority = "medium" THEN 2
    ELSE IF priority = "low" THEN 3
    ELSE 4

\* C17: after sort_tasks_by_priority the "high" tasks come first, then
\* "medium", then "low", then the tasks of any other priority, and the tasks
\* of each group keep their relative order.
SortedByPriority ==
    last.op = "sort_tasks_by_priority" =>
        /\ \A i, j \in 1..Len(tasks) :
              i < j => PriorityGroup(tasks[i].priority) <= PriorityGroup(tasks[j].priority)
        /\ \A g \in 1..4 :
              Only(tasks, LAMBDA t : PriorityGroup(t.priority) = g)
                  = Only(last.tasks, LAMBDA t : PriorityGroup(t.priority) = g)

\* a sort_tasks_by_priority of a list with a task of unknown priority before
\* two different "high" tasks
SortByPriorityReached ==
    /\ last.op = "sort_tasks_by_priority"
    /\ Len(last.tasks) = 3
    /\ last.tasks[1].priority = "urgent"
    /\ last.tasks[2].priority = "high"
    /\ last.tasks[3].priority = "high"
    /\ last.tasks[2] # last.tasks[3]
    /\ tasks[3] = last.tasks[1]

IncompleteBeforeComplete ==
    last.op = "sort_tasks_by_status" =>
        \A i, j \in 1..Len(tasks) :
            (tasks[i].status = "complete" /\ tasks[j].status = "incomplete") => j < i


\* ------------------------------------------ actions: AdvancedTaskManager
\* the statuses, keywords and keyword lists the queries are called with
StatusValues == {"complete", "incomplete"}
Keywords == {"a", "D2", ""}
KeywordLists == {<<>>, <<"a">>, <<"D2">>, <<"a", "D2">>, <<"">>}

\* what an inherited call on an AdvancedTaskManager leaves behind
Stored(op, title, description, after) ==
    /\ tasks' = after
    /\ out' = ""
    /\ raised' = "none"
    /\ last' = Call(op, title, description)
    /\ result' = <<>>
    /\ args' = <<>>
    /\ aliased' = FALSE
    /\ UNCHANGED <<history, redo_stack, prev, undone, run, added, manager,
                   collabVars, consoleVars>>

\* a query as it would be if it assigned the list it built to self.tasks
Query_rebinds(op, arguments, returned, own) ==
    /\ result' = returned
    /\ args' = arguments
    /\ aliased' = own
    /\ out' = ""
    /\ raised' = "none"
    /\ last' = Call(op, "", "")
    /\ tasks' = returned
    /\ UNCHANGED <<history, redo_stack, prev, undone, run, added, manager,
                   collabVars, consoleVars>>

\* what a query leaves behind
Query(op, arguments, returned, own) ==
    /\ result' = returned
    /\ args' = arguments
    /\ aliased' = own
    /\ out' = ""
    /\ raised' = "none"
    /\ last' = Call(op, "", "")
    /\ UNCHANGED <<tasks, history, redo_stack, prev, undone, run, added, manager,
                   collabVars, consoleVars>>

AdvancedTaskManager_add_task ==
    \E title \in Titles, description \in Descriptions :
        /\ Len(tasks) < MaxTasks
        /\ Stored("add_task", title, description, add_task(tasks, title, description))

AdvancedTaskManager_remove_task ==
    \E title \in Titles :
        Stored("remove_task", title, "", remove_task(tasks, title))

AdvancedTaskManager_mark_task_complete ==
    \E title \in Titles :
        Stored("mark_task_complete", title, "", mark_task_complete(tasks, title))

AdvancedTaskManager_mark_task_incomplete ==
    \E title \in Titles :
        Stored("mark_task_incomplete", title, "", mark_task_incomplete(tasks, title))

AdvancedTaskManager_filter_tasks_by_status ==
    \E status \in StatusValues :
        Query("filter_tasks_by_status", [status |-> status],
              filter_tasks_by_status(tasks, status), FALSE)

AdvancedTaskManager_search_tasks_by_keyword ==
    \E keyword \in Keywords :
        Query("search_tasks_by_keyword", [keyword |-> keyword],
              search_tasks_by_keyword(tasks, keyword), FALSE)

AdvancedTaskManager_search_tasks_by_keywords ==
    \E keywords \in KeywordLists :
        Query("search_tasks_by_keywords", [keywords |-> keywords],
              search_tasks_by_keywords(tasks, keywords), FALSE)

AdvancedTaskManager_filter_tasks ==
    \E status \in {None} \cup {Some(s) : s \in StatusValues},
       keywords \in {None} \cup {Some(l) : l \in KeywordLists} :
        Query("filter_tasks", [status |-> status, keywords |-> keywords],
              filter_tasks(tasks, status, keywords),
              filter_tasks_returns_own_list(status, keywords))

\* the queries of an AdvancedTaskManager, and what a caller may do to the
\* list a query returned
QueryOps == {"filter_tasks_by_status", "search_tasks_by_keyword",
             "search_tasks_by_keywords", "filter_tasks"}
CallerOps == {"result.append", "result.pop"}

\* what a change of the returned list by the caller leaves behind: the store
\* changes with it when the returned list is the store's own list
Caller(op, changed) ==
    /\ last.op \in QueryOps \cup CallerOps
    /\ result' = changed
    /\ tasks' = IF aliased THEN changed ELSE tasks
    /\ out' = ""
    /\ raised' = "none"
    /\ last' = Call(op, "", "")
    /\ UNCHANGED <<history, redo_stack, prev, undone, run, added, args, aliased, manager,
                   collabVars, consoleVars>>

\* the caller appends a task to the list a query returned
Caller_append ==
    /\ Len(result) < MaxTasks
    /\ Caller("result.append", Append(result, NewTask("B", "d2")))

\* the caller removes the last task of the list a query returned
Caller_pop ==
    /\ result # <<>>
    /\ Caller("result.pop", SubSeq(result, 1, Len(result) - 1))

NextAdvanced ==
    \/ AdvancedTaskManager_add_task
    \/ AdvancedTaskManager_remove_task
    \/ AdvancedTaskManager_mark_task_complete
    \/ AdvancedTaskManager_mark_task_incomplete
    \/ AdvancedTaskManager_filter_tasks_by_status
    \/ AdvancedTaskManager_search_tasks_by_keyword
    \/ AdvancedTaskManager_search_tasks_by_keywords
    \/ AdvancedTaskManager_filter_tasks

NextQuery ==
    \/ NextAdvanced
    \/ Caller_append
    \/ Caller_pop

SpecQuery == Init /\ [][NextQuery]_vars

\* the tasks of a list, as a set
Members(ts) == {ts[i] : i \in 1..Len(ts)}

\* C20: filter_tasks(status, keywords) returns, in store order, exactly the
\* tasks that are in filter_tasks_by_status(status) when a status is given
\* and in search_tasks_by_keywords(keywords) when a keyword list is given,
\* the empty list included; only a criterion left out excludes nothing.
FilterIsIntersection ==
    last.op = "filter_tasks" =>
        result = Only(tasks, LAMBDA task :
                    /\ args.status # None =>
                          task \in Members(filter_tasks_by_status(tasks, args.status[1]))
                    /\ args.keywords # None =>
                          task \in Members(search_tasks_by_keywords(tasks, args.keywords[1])))

\* C21: no query returns the manager's own task list, so a caller that adds
\* to or removes from the returned list leaves the store as it was.
QueryResultIsOwnCopy ==
    /\ last.op \in QueryOps => ~aliased
    /\ last.op \in CallerOps => tasks = last.tasks

\* ==================================================================
\* TaskManagerWithCategoriesAndTags, and a session on either querying manager
\* ==================================================================

\* the <<category, tags>> arguments add_task is called with
TagInputs == {<<None, None>>, <<Some("W"), Some(<<"t">>)>>,
              <<Some("W/X"), Some(<<"t", "u">>)>>, <<Some(""), Some(<<>>)>>}
Categories == {None, Some("W"), Some("W/X"), Some("")}
TagLists == {<<>>, <<"t">>, <<"u", "t">>}
Hierarchies == {<<>>, <<"W">>, <<"W", "X">>}

TaskManagerWithCategoriesAndTags_add_task ==
    \E title \in Titles, input \in TagInputs :
        /\ Len(tasks) < MaxTasks
        /\ Stored("add_task", title, "d1",
                  add_tagged_task(tasks, title, "d1", input[1], input[2]))

TaskManagerWithCategoriesAndTags_remove_task ==
    \E title \in Titles :
        Stored("remove_task", title, "", remove_task(tasks, title))

TaskManagerWithCategoriesAndTags_mark_task_complete ==
    \E title \in Titles :
        Stored("mark_task_complete", title, "", mark_task_complete(tasks, title))

TaskManagerWithCategoriesAndTags_mark_task_incomplete ==
    \E title \in Titles :
        Stored("mark_task_incomplete", title, "", mark_task_incomplete(tasks, title))

TaskManagerWithCategoriesAndTags_filter_tasks_by_category ==
    \E category \in Categories :
        Query("filter_tasks_by_category", [category |-> category],
              filter_tasks_by_category(tasks, category), FALSE)

TaskManagerWithCategoriesAndTags_search_tasks_by_tags ==
    \E tags \in TagLists :
        Query("search_tasks_by_tags", [tags |-> tags],
              search_tasks_by_tags(tasks, tags), FALSE)

TaskManagerWithCategoriesAndTags_filter_tasks_by_nested_category ==
    \E category_hierarchy \in Hierarchies :
        Query("filter_tasks_by_nested_category",
              [category_hierarchy |-> category_hierarchy],
              filter_tasks_by_nested_category(tasks, category_hierarchy), FALSE)

NextTagged ==
    \/ TaskManagerWithCategoriesAndTags_add_task
    \/ TaskManagerWithCategoriesAndTags_remove_task
    \/ TaskManagerWithCategoriesAndTags_mark_task_complete
    \/ TaskManagerWithCategoriesAndTags_mark_task_incomplete
    \/ TaskManagerWithCategoriesAndTags_filter_tasks_by_category
    \/ TaskManagerWithCategoriesAndTags_search_tasks_by_tags
    \/ TaskManagerWithCategoriesAndTags_filter_tasks_by_nested_category

\* the session builds one of the two managers that have queries
QueryManagers == {"AdvancedTaskManager", "TaskManagerWithCategoriesAndTags"}

InitQueries == Fresh /\ manager \in QueryManagers

NextQueries ==
    \/ manager = "AdvancedTaskManager" /\ NextAdvanced
    \/ manager = "TaskManagerWithCategoriesAndTags" /\ NextTagged

SpecQueries == InitQueries /\ [][NextQueries]_vars

TaggedQueryOps == {"filter_tasks_by_category", "search_tasks_by_tags",
                   "filter_tasks_by_nested_category"}

\* C22: no query changes the store: after filter_tasks_by_status,
\* search_tasks_by_keyword, search_tasks_by_keywords, filter_tasks,
\* filter_tasks_by_category, search_tasks_by_tags or
\* filter_tasks_by_nested_category the task list, its order and every task's
\* fields are what they were before the call.
QueryLeavesStore ==
    last.op \in QueryOps \cup TaggedQueryOps => tasks = last.tasks

\* a nested-category query that selects the middle one of three tasks, one
\* of them complete
NestedQueryReached ==
    /\ last.op = "filter_tasks_by_nested_category"
    /\ Len(tasks) = 3
    /\ result = <<tasks[2]>>
    /\ tasks[1].status = "complete"

\* ==================================================================
\* CollaborationManager
\* ==================================================================

\* bounds: Task objects ever created, comments ever added
MaxObjects == 2
MaxComments == 1

Usernames == {"ann", "bob"}

\* the titles tasks are added with; calls that look a title up take Titles,
\* so "B" is a title no task has
OwnTitles == {"A"}

\* the comments there are on all tasks together
RECURSIVE CommentCount(_)
CommentCount(hp) ==
    IF hp = <<>> THEN 0
    ELSE CommentCount(Tail(hp))
           + (IF Head(hp).comments = None THEN 0 ELSE Len(Head(hp).comments[1]))
Permissions == {"read", "edit"}

\* observer: a call on the collaboration manager or on a user's TaskManager,
\* with the users and objects it was made on
CollabCall(op, username, to_user, title, permission) ==
    [op |-> op, username |-> username, to_user |-> to_user, title |-> title,
     permission |-> permission, users |-> users, heap |-> heap]

\* what a call on the collaboration manager or on a user's TaskManager
\* leaves behind
Collab(call, users_after, heap_after, printed) ==
    /\ users' = users_after
    /\ heap' = heap_after
    /\ out' = printed
    /\ raised' = "none"
    /\ last' = call
    /\ UNCHANGED <<tasks, history, redo_stack, prev, undone, run, added, result, args,
                   aliased, manager, consoleVars>>

CollaborationManager_add_user ==
    \E username \in Usernames :
        Collab(CollabCall("add_user", username, "", "", ""),
               add_user(users, username), heap, add_user_out(users, username))

User_add_task ==
    \E username \in DOMAIN users, title \in OwnTitles :
        /\ Len(heap) < MaxObjects
        /\ Collab(CollabCall("add_task", username, "", title, ""),
                  user_add_task(users, heap, username),
                  user_add_task_heap(heap, title, "d1"), <<>>)

User_remove_task ==
    \E username \in DOMAIN users, title \in Titles :
        Collab(CollabCall("remove_task", username, "", title, ""),
               user_remove_task(users, heap, username, title), heap, <<>>)

User_mark_task_complete ==
    \E username \in DOMAIN users, title \in Titles :
        Collab(CollabCall("mark_task_complete", username, "", title, ""),
               users, user_mark_task_complete(users, heap, username, title),
               user_mark_out(users, heap, username, title))

User_mark_task_incomplete ==
    \E username \in DOMAIN users, title \in Titles :
        Collab(CollabCall("mark_task_incomplete", username, "", title, ""),
               users, user_mark_task_incomplete(users, heap, username, title),
               user_mark_out(users, heap, username, title))

CollaborationManager_share_task ==
    \E from_user \in Usernames, to_user \in Usernames, task_title \in Titles,
       permission \in Permissions :
        /\ IF share_task_fails(users, heap, from_user, to_user, task_title) THEN TRUE
           ELSE Len(heap) < MaxObjects
        /\ Collab(CollabCall("share_task", from_user, to_user, task_title, permission),
                  share_task(users, heap, from_user, to_user, task_title, permission),
                  share_task_heap(users, heap, from_user, to_user, task_title, permission),
                  share_task_out(users, heap, from_user, to_user, task_title, permission))

CollaborationManager_add_comment_to_task ==
    \E username \in Usernames, task_title \in Titles :
        /\ IF add_comment_fails(users, heap, username, task_title) THEN TRUE
           ELSE CommentCount(heap) < MaxComments
        /\ Collab(CollabCall("add_comment_to_task", username, "", task_title, ""),
                  users, add_comment_to_task(users, heap, username, task_title, "c"),
                  add_comment_out(users, heap, username, task_title))

NextCollab ==
    \/ CollaborationManager_add_user
    \/ User_add_task
    \/ User_remove_task
    \/ User_mark_task_complete
    \/ User_mark_task_incomplete
    \/ CollaborationManager_share_task
    \/ CollaborationManager_add_comment_to_task

SpecCollab == Init /\ [][NextCollab]_vars

\* the calls on a user's TaskManager that change or remove tasks
UserChanges == {"mark_task_complete", "mark_task_incomplete", "remove_task"}

\* an object is a copy share_task made
IsCopy(object) == object.shared_status # None

\* C23: the copy share_task gives the recipient is independent of the
\* owner's task: a status change or a removal in one user's list leaves the
\* tasks of every other user's list as they were, so the owner's changes
\* do not reach the recipient's copy and the recipient's changes of a copy
\* shared with "edit" do not reach the owner's task.
SharedCopyIsIndependent ==
    last.op \in UserChanges =>
        \A username \in DOMAIN users \ {last.username} :
            TasksOf(users, heap, username) = TasksOf(last.users, last.heap, username)

\* the recipient completed a copy shared with "edit" while the owner still
\* has the task, incomplete
EditedCopyReached ==
    /\ last.op = "mark_task_complete"
    /\ \E i \in 1..Len(users[last.username]) :
          /\ IsCopy(heap[users[last.username][i]])
          /\ ~heap[users[last.username][i]].read_only
          /\ heap[users[last.username][i]].task.status = "complete"
    /\ \E owner \in DOMAIN users \ {last.username} :
          \E i \in 1..Len(users[owner]) :
              /\ ~IsCopy(heap[users[owner][i]])
              /\ heap[users[owner][i]].task.title = last.title
              /\ heap[users[owner][i]].task.status = "incomplete"

\* C24: a copy shared with "read" keeps, in the recipient's list, the status
\* it was shared with, and a mark_task_complete or mark_task_incomplete
\* that reaches such a copy is answered with "Permission denied".
ReadOnlyCopyKeepsStatus ==
    /\ \A username \in DOMAIN users : \A i \in 1..Len(users[username]) :
          heap[users[username][i]].read_only =>
              heap[users[username][i]].task.status
                  = heap[users[username][i]].shared_status[1]
    /\ (/\ last.op \in {"mark_task_complete", "mark_task_incomplete"}
        /\ \E i \in Matching(last.users, last.heap, last.username, last.title) :
              last.heap[last.users[last.username][i]].read_only)
          => out = <<"Permission denied: Read-only access.">>

\* the recipient called mark_task_complete on a read-only copy that was
\* shared incomplete
ReadOnlyMarkReached ==
    /\ last.op = "mark_task_complete"
    /\ \E i \in Matching(last.users, last.heap, last.username, last.title) :
          /\ last.heap[last.users[last.username][i]].read_only
          /\ last.heap[last.users[last.username][i]].shared_status = Some("incomplete")

\* C28: share_task leaves every user's list as it was when from_user or
\* to_user is no registered user or from_user has no task of that title; a
\* share that succeeds appends exactly one task to to_user's list and leaves
\* every other list, from_user's included, as it was.
ShareChangesRecipientOnly ==
    last.op = "share_task" =>
        IF share_task_fails(last.users, last.heap, last.username, last.to_user, last.title)
        THEN \A username \in DOMAIN users :
                 TasksOf(users, heap, username) = TasksOf(last.users, last.heap, username)
        ELSE /\ Len(users[last.to_user]) = Len(last.users[last.to_user]) + 1
             /\ SubSeq(TasksOf(users, heap, last.to_user), 1, Len(last.users[last.to_user]))
                    = TasksOf(last.users, last.heap, last.to_user)
             /\ \A username \in DOMAIN users \ {last.to_user} :
                    TasksOf(users, heap, username) = TasksOf(last.users, last.heap, username)
             /\ TasksOf(users, heap, last.username)
                    = TasksOf(last.users, last.heap, last.username)

\* ==================================================================
\* TaskManagerWithHistory: the snapshots on the two stacks
\* ==================================================================

NoChange(call, after) == call.op \in Mutations /\ call.tasks = after

\* C26: every add_task, remove_task, mark_task_complete and
\* mark_task_incomplete of a TaskManagerWithHistory puts exactly one snapshot
\* on the undo stack and empties the redo stack, also when the call changes
\* nothing; an undo right after a call that changed nothing leaves the task
\* list as it is and takes one snapshot off the undo stack.
NoChangeCallIsRecorded ==
    /\ last.op \in Mutations =>
          (Len(history) = Len(last.history) + 1 /\ redo_stack = <<>>)
    /\ (last.op = "undo" /\ NoChange(prev, last.tasks)) =>
          (tasks = last.tasks /\ Len(history) = Len(last.history) - 1)

\* an undo right after a mark_task_incomplete of a task that was incomplete
\* already, made when there was something to redo
UndoAfterNoChangeReached ==
    /\ last.op = "undo"
    /\ prev.op = "mark_task_incomplete"
    /\ ~Absent(prev.tasks, prev.title)
    /\ NoChange(prev, last.tasks)
    /\ prev.redo_stack # <<>>

\* C27: an undo or redo that finds a snapshot keeps
\* len(history) + len(redo_stack), and a redo right after such an undo
\* leaves the task list, the undo stack and the redo stack as they were
\* before the undo.
UndoRedoIsRoundTrip ==
    /\ (\/ last.op = "undo" /\ last.history # <<>>
        \/ last.op = "redo" /\ last.redo_stack # <<>>) =>
          Len(history) + Len(redo_stack) = Len(last.history) + Len(last.redo_stack)
    /\ (last.op = "redo" /\ prev.op = "undo" /\ prev.history # <<>>) =>
          /\ tasks = prev.tasks
          /\ history = prev.history
          /\ redo_stack = prev.redo_stack

\* a redo right after an undo that was made with snapshots on both stacks
\* and a completed task in the list
RoundTripReached ==
    /\ last.op = "redo"
    /\ prev.op = "undo"
    /\ Len(prev.history) >= 2
    /\ prev.redo_stack # <<>>
    /\ \E i \in 1..Len(prev.tasks) : prev.tasks[i].status = "complete"

\* ==================================================================
\* TaskManagerWithDueDatesAndSorting: what a sort keeps
\* ==================================================================

SortOps == {"sort_tasks_by_due_date", "sort_tasks_by_priority", "sort_tasks_by_status"}

\* how often a task is in a list
Count(ts, task) == Cardinality({i \in 1..Len(ts) : ts[i] = task})

\* C29: sort_tasks_by_due_date, sort_tasks_by_priority and
\* sort_tasks_by_status only reorder the list: it has the same length and
\* every task, with all its fields, is in it as often as before the sort.
SortIsPermutation ==
    last.op \in SortOps =>
        /\ Len(tasks) = Len(last.tasks)
        /\ \A i \in 1..Len(tasks) : Count(tasks, tasks[i]) = Count(last.tasks, tasks[i])
        /\ \A i \in 1..Len(last.tasks) :
              Count(tasks, last.tasks[i]) = Count(last.tasks, last.tasks[i])

\* a sort by priority that moved tasks, two of which differ but have the
\* same priority
SortMovedEqualKeysReached ==
    /\ last.op = "sort_tasks_by_priority"
    /\ tasks # last.tasks
    /\ \E i, j \in 1..Len(last.tasks) :
          /\ last.tasks[i].priority = last.tasks[j].priority
          /\ last.tasks[i] # last.tasks[j]

\* ==================================================================
\* ConsoleInterface
\* ==================================================================

\* bounds: the commands given in a session, and how often a command differs
\* from the one given before it
MaxCommands == 52
MaxSwitches == 1

\* the commands given, "x" being no command of the menu, and what the user
\* types in when asked for a theme
Commands == {"1", "4", "6", "7", "x"}
ThemeChoices == {"2", "4"}

Switches(commands) ==
    Cardinality({i \in 1..(Len(commands) - 1) : commands[i] # commands[i + 1]})

ConsoleInterface_execute_command ==
    \E command \in Commands, choice \in ThemeChoices :
        /\ Len(log) < MaxCommands
        /\ Switches(Append(log, command)) <= MaxSwitches
        /\ command = "1" => Len(tasks) < MaxTasks
        /\ command_history' = deque_append(command_history, command)
        /\ tasks' = execute_command_tasks(tasks, command, "A", "d1")
        /\ theme' = execute_command_theme(theme, command, choice)
        /\ out' = execute_command_out(tasks, deque_append(command_history, command),
                                      command, choice)
        /\ raised' = "none"
        /\ log' = Append(log, command)
        /\ last' = [op |-> "execute_command", command |-> command]
        /\ UNCHANGED <<history, redo_stack, prev, undone, run, added, result, args,
                       aliased, manager, collabVars>>

NextConsole == ConsoleInterface_execute_command

SpecConsole == Init /\ [][NextConsole]_vars

\* the last n elements of a sequence, all of them when it has fewer
LastOf(s, n) == SubSeq(s, IF Len(s) > n THEN Len(s) - n + 1 ELSE 1, Len(s))

\* C30: after n calls of execute_command, command_history holds at most 50
\* entries: the most recent min(n, 50) commands in the order they were
\* given, commands answered with "Invalid command" included.
HistoryIsLastCommands ==
    /\ Len(command_history) <= 50
    /\ command_history = LastOf(log, 50)

\* more than 50 commands were given, the oldest one is gone from the history
\* and the newest one was no command of the menu
OldestCommandDroppedReached ==
    /\ Len(log) > 50
    /\ log[1] # command_history[1]
    /\ log[Len(log)] = "x"
    /\ command_history[Len(command_history)] = "x"

====
